---- MODULE Spec2Model ----
(***************************************************************************)
(* Model of the rai code-similarity extension (hichem-dahi/rai).           *)
(*                                                                         *)
(*   Spec       the analysis workflow: analyzeAllFiles runs over the       *)
(*              workspace files, the Index Store (PGlite tables files and  *)
(*              code_chunks), the module-level cache filesDb, the disk.    *)
(*   SpecCancel one run of the workflow that the user may cancel.          *)
(*   SpecChunk  the chunker as a pure function: splitCodeIntoChunks and    *)
(*              generateEmbeddings applied to bounded source texts.        *)
(*   SpecSearch calculateSimilarity, the query, on bounded chunk tables.   *)
(*   SpecMerge  mergePairs, step by step, on bounded lists of pairs.       *)
(*                                                                         *)
(* Strings are sequences of one-character strings, so that split, join,    *)
(* the regular-expression replacements and trim are computed, not assumed. *)
(***************************************************************************)
EXTENDS Integers, Sequences, FiniteSets, TLC

\* ------------------------------------------------------------------ bounds
\* Number of on-disk changes (a save or a removal) of workspace files.
MaxEdits == 1
\* Longest source text given to the chunker in SpecChunk.
MaxTextLen == 5
\* Largest window size given to the chunker in SpecChunk.
MaxWindow == 3
\* Windows per file of the table searched in SpecSearch.
MaxRows == 7
\* Chunks of that table that resemble another chunk.
MaxSimilar == 3
\* Longest list of pairs given to mergePairs in SpecMerge.
MaxPairs == 3
\* Largest chunk id in those pairs.
MaxId == 4

\* ------------------------------------------------------- program constants
\* const chunkSize = 5 in analyzeCodeSimilarity.
ChunkSize == 5
\* embedding vector(384) in the code_chunks table.
Dim == 384
\* new Date(0), the fallback modification time in analyzeFile.
Epoch == 0
\* (a.embedding <=> b.embedding) < 0.20, in hundredths.
CoarseDistance == 20
\* LIMIT 100000 on potential_pairs.
CandidateCap == 100000
\* ABS(a.start_line - b.start_line) > 5 in filtered_pairs.
AdjacentLines == 5
\* (LEAST(start_line1, start_line2) / 5) * 5 in the partition of ranked_results.
BucketLines == 5
\* WHERE similarity_raw > 0.80, in hundredths.
FineSimilarity == 80
\* LIMIT 50 on the rows returned.
ResultLimit == 50

\* The files findFiles returns, in the order of the loop.
FileList == <<"a.ts", "b.ts">>
NumFiles == Len(FileList)
Files == {FileList[i] : i \in 1..NumFiles}

\* The invocations of the rai.analyzeSimilarity command, in the order in
\* which they are started.
RunOrder == <<"run1", "run2">>
Runs == {RunOrder[i] : i \in DOMAIN RunOrder}
FirstRun == RunOrder[1]
NoRun == "none"

\* ---------------------------------------------------------------- strings
NL == "\n"

IsWs(c) == c \in {" ", "\n", "\t"}

Max(a, b) == IF a >= b THEN a ELSE b

Min(a, b) == IF a <= b THEN a ELSE b

\* String.prototype.split("\n"): the lines between the separators; a text
\* without separator (the empty text included) is one line.
RECURSIVE SplitAcc(_, _, _)
SplitAcc(code, cur, acc) ==
  IF code = <<>> THEN Append(acc, cur)
  ELSE IF Head(code) = NL
       THEN SplitAcc(Tail(code), <<>>, Append(acc, cur))
       ELSE SplitAcc(Tail(code), Append(cur, Head(code)), acc)

split(code) == SplitAcc(code, <<>>, <<>>)

\* Array.prototype.join("\n").
RECURSIVE join(_)
join(lines) ==
  IF lines = <<>> THEN <<>>
  ELSE IF Len(lines) = 1 THEN lines[1]
  ELSE lines[1] \o <<NL>> \o join(Tail(lines))

\* Array.prototype.slice(from, to) for 0 <= from <= to (0-based, end exclusive).
slice(lines, from, to) == SubSeq(lines, from + 1, Min(to, Len(lines)))

RECURSIVE DropWs(_)
DropWs(s) == IF s # <<>> /\ IsWs(Head(s)) THEN DropWs(Tail(s)) ELSE s

RECURSIVE DropWsEnd(_)
DropWsEnd(s) ==
  IF s # <<>> /\ IsWs(s[Len(s)]) THEN DropWsEnd(SubSeq(s, 1, Len(s) - 1)) ELSE s

\* .replace(/\s+/, " "), without the g flag: the first run only.
RECURSIVE CollapseWsFirst(_)
CollapseWsFirst(s) ==
  IF s = <<>> THEN <<>>
  ELSE IF IsWs(Head(s)) THEN <<" ">> \o DropWs(s)
  ELSE <<Head(s)>> \o CollapseWsFirst(Tail(s))

\* .replace(/\s+/g, " ")
RECURSIVE CollapseWs(_)
CollapseWs(s) ==
  IF s = <<>> THEN <<>>
  ELSE IF IsWs(Head(s)) THEN <<" ">> \o CollapseWs(DropWs(s))
  ELSE <<Head(s)>> \o CollapseWs(Tail(s))

\* .replace(/(?<=\>)\s+(?=\<)/g, ""): a whitespace run that starts right after
\* ">" and ends right before "<" is removed.
RECURSIVE StripBetweenTags(_, _)
StripBetweenTags(prev, s) ==
  IF s = <<>> THEN <<>>
  ELSE IF /\ IsWs(Head(s))
          /\ prev = ">"
          /\ DropWs(s) # <<>>
          /\ Head(DropWs(s)) = "<"
       THEN StripBetweenTags(" ", DropWs(s))
       ELSE <<Head(s)>> \o StripBetweenTags(Head(s), Tail(s))

\* .trim()
trim(s) == DropWsEnd(DropWs(s))

normalizeChunk(chunk) == trim(StripBetweenTags("", CollapseWs(chunk)))

\* ChunkLoop with the loop test i < lines.length - chunkSize.
RECURSIVE ChunkLoopStrict(_, _, _, _)
ChunkLoopStrict(lines, chunkSize, i, chunks) ==
  IF i < Len(lines) - chunkSize
  THEN ChunkLoopStrict(lines, chunkSize, i + 1,
                       Append(chunks, normalizeChunk(join(slice(lines, i, i + chunkSize)))))
  ELSE chunks

\* for (let i = 0; i <= lines.length - chunkSize; i++) chunks.push(...)
RECURSIVE ChunkLoop(_, _, _, _)
ChunkLoop(lines, chunkSize, i, chunks) ==
  IF i <= Len(lines) - chunkSize
  THEN ChunkLoop(lines, chunkSize, i + 1,
                 Append(chunks, normalizeChunk(join(slice(lines, i, i + chunkSize)))))
  ELSE chunks

splitCodeIntoChunks(code, chunkSize) == ChunkLoop(split(code), chunkSize, 0, <<>>)

\* StartLine counting non-overlapping windows: index * chunkSize + 1.
StartLineStride(index, chunkSize) == index * chunkSize + 1

\* const startLine = index + 1
StartLine(index, chunkSize) == index + 1

\* generateEmbeddings: one Chunk per window; `dims` is what featureExtraction
\* returned, abstracted to the length of each vector (0: no vector at that
\* index, new Float32Array(undefined) is empty).
generateEmbeddings(chunks, chunkSize, file, dims) ==
  [k \in 1..Len(chunks) |->
     [start_line |-> StartLine(k - 1, chunkSize),
      end_line   |-> StartLine(k - 1, chunkSize) + chunkSize - 1,
      chunk      |-> chunks[k],
      file       |-> file,
      embedding  |-> IF k <= Len(dims) THEN dims[k] ELSE 0]]


\* ------------------------------------------------------------------ state
VARIABLES
  disk,        \* per file: present, modification time, content
  edits,       \* number of on-disk changes so far
  store,       \* the Index Store: tables files and code_chunks, SERIAL counter
  txOwner,     \* the run whose db.transaction holds the store, or NoRun
  txSnap,      \* the store at BEGIN of the open transaction
  filesDb,     \* module-level `let filesDb: File[]`
  cacheOwner,  \* history: the run whose getFiles result filesDb holds
  pc,          \* per run: position in analyzeAllFiles
  processed,   \* per run: `processed`, files of the loop already handled
  cancelled,   \* per run: the CancellationToken of withProgress is cancelled
  code,        \* per run: `code1`, the decoded content of the current file
  fileArg,     \* per run: `file` given to analyzeCodeSimilarity
  failed,      \* per run: the transaction callback has thrown
  vectors,     \* per run: `vectors` returned by generateEmbeddings
  result,      \* per run: what the last analyzeCodeSimilarity returned
  saw,         \* per run: the chunk rows the similarity query read
  cPhase,      \* SpecChunk: "input", "chunked", "embedded"
  cText,       \* SpecChunk: the source text
  cSize,       \* SpecChunk: the window size
  cChunks,     \* SpecChunk: result of splitCodeIntoChunks
  cVectors,    \* SpecChunk: result of generateEmbeddings
  sPhase,      \* SpecSearch: "table", "done"
  sTable,      \* SpecSearch: the rows of code_chunks the query reads
  sResult,     \* SpecSearch: what calculateSimilarity returned
  mPhase,      \* SpecMerge: "outer", "inner", "filter", "done"
  mPairs,      \* SpecMerge: `pairs`, the caller's list given to mergePairs
  mInput,      \* SpecMerge: history, `pairs` as it was at the call
  clonePairs,  \* SpecMerge: `clonePairs`, the clusters being merged
  mI,          \* SpecMerge: `i` of the outer loop
  mJ,          \* SpecMerge: `j` of the inner loop
  mOut         \* SpecMerge: what mergePairs returned

diskVars == <<disk, edits>>
storeVars == <<store, txOwner, txSnap>>
cacheVars == <<filesDb, cacheOwner>>
runVars == <<pc, processed, cancelled, code, fileArg, failed, vectors, result, saw>>
chunkVars == <<cPhase, cText, cSize, cChunks, cVectors>>
searchVars == <<sPhase, sTable, sResult>>
mergeVars == <<mPhase, mPairs, mInput, clonePairs, mI, mJ, mOut>>
pureVars == <<chunkVars, searchVars, mergeVars>>
mainVars == <<diskVars, storeVars, cacheVars, runVars>>
vars == <<mainVars, pureVars>>

\* ---------------------------------------------------------------- fixtures
Letters == <<"a", "b", "c", "d", "e", "f", "g", "h">>

\* A source text of n one-letter lines.
TextOf(n) == join([i \in 1..n |-> <<Letters[i]>>])

\* The content of each file at the start: 5 lines (1 window), 6 lines (2).
InitialText(f) == IF f = FileList[1] THEN TextOf(ChunkSize) ELSE TextOf(ChunkSize + 1)

\* The content a save gives a file: 5 -> 6 -> 4 -> 5 lines (1, 2, 0 windows).
NextText(t) ==
  LET n == Len(split(t))
  IN TextOf(IF n = ChunkSize + 1 THEN ChunkSize - 1 ELSE n + 1)

NoFile == [filepath |-> "", modified_at |-> Epoch]

EmptyStore ==
  [hasFiles |-> FALSE, hasChunks |-> FALSE, files |-> {}, chunks |-> {}, nextId |-> 1]

\* The file the for-of loop of run r is at.
CurFile(r) == FileList[processed[r] + 1]

\* ------------------------------------------------------------------- disk
\* null, what getFileModifiedDate returns from its catch.
NoDate == Epoch - 1

\* fs.statSync(filePath).mtime, or null when stat throws. Dates are counted in
\* milliseconds; the date written by upsertFile (toISOString) and read back
\* by getFiles has the same milliseconds.
getFileModifiedDate(filePath) ==
  IF disk[filePath].present THEN disk[filePath].mtime ELSE NoDate

\* ------------------------------------------------------------------ store
\* PGlite runs one query or one transaction at a time: a query waits while a
\* transaction is open.
StoreFree == txOwner = NoRun

\* What a reader outside the open transaction can be given: the store as of
\* the last COMMIT.
Committed == IF txOwner = NoRun THEN store ELSE txSnap

\* deleteEmbeddings without its WHERE clause: every row goes.
deleteEmbeddingsAll(s, file) == [s EXCEPT !.chunks = {}]

\* DELETE FROM code_chunks WHERE file = $1
deleteEmbeddings(s, file) == [s EXCEPT !.chunks = {c \in s.chunks : c.file # file}]

\* INSERT INTO files ... ON CONFLICT (filepath) DO UPDATE SET modified_at
upsertFile(s, fileData) ==
  [s EXCEPT !.files = {x \in s.files : x.filepath # fileData.filepath} \cup {fileData}]

\* INSERT INTO code_chunks ... VALUES (...), (...): one row per vector, ids
\* from the SERIAL column in order.
insertEmbeddings(s, vs) ==
  [s EXCEPT !.chunks = s.chunks \cup
                       {[id         |-> s.nextId + k - 1,
                         start_line |-> vs[k].start_line,
                         end_line   |-> vs[k].end_line,
                         chunk      |-> vs[k].chunk,
                         file       |-> vs[k].file] : k \in 1..Len(vs)},
            !.nextId = s.nextId + Len(vs)]

\* The INSERT is rejected as a whole: no table, a vector that is not
\* vector(384), or a file that has no row in files (REFERENCES files).
InsertRejected(s, vs) ==
  \/ ~s.hasChunks
  \/ \E k \in 1..Len(vs) : vs[k].embedding # Dim
  \/ \E k \in 1..Len(vs) : \A x \in s.files : x.filepath # vs[k].file

\* filesDb.find((f) => f.filepath === filepath)
isFileCached(filepath) == {x \in filesDb : x.filepath = filepath}

\* isModified with >= for >: a tie counts as modified.
isModifiedOrEqual(file) ==
  LET actualModifiedAt == getFileModifiedDate(file.filepath)
  IN actualModifiedAt # NoDate /\ actualModifiedAt >= file.modified_at

\* isModified: true when the date on disk is later than the cached one,
\* undefined (falsy) when it is not or when it cannot be read.
isModified(file) ==
  LET actualModifiedAt == getFileModifiedDate(file.filepath)
  IN actualModifiedAt # NoDate /\ actualModifiedAt > file.modified_at

\* const isAnalyze = !cachedFile || isModified(cachedFile)
isAnalyze(filepath) ==
  \/ isFileCached(filepath) = {}
  \/ \E cachedFile \in isFileCached(filepath) : isModified(cachedFile)

\* getFileModifiedDate(filepath) || new Date(0)
actualModifiedAt(filepath) ==
  IF getFileModifiedDate(filepath) = NoDate THEN Epoch ELSE getFileModifiedDate(filepath)

\* What featureExtraction can give for n chunks: a vector per chunk, a batch
\* with the last vector missing, or an exception.
ProviderOutcomes == {"ok", "malformed", "throw"}

ProviderDims(n, outcome) ==
  IF outcome = "ok" THEN [k \in 1..n |-> Dim] ELSE [k \in 1..(n - 1) |-> Dim]

\* TxOutcome when the callback swallows its error: always COMMIT.
TxOutcomeAlwaysCommit(r) == "commit"

\* db.transaction: COMMIT when the callback returns, ROLLBACK when it throws.
TxOutcome(r) == IF failed[r] THEN "rollback" ELSE "commit"

StoreAfterTx(r) == IF TxOutcome(r) = "rollback" THEN txSnap ELSE store

\* analyzeCodeSimilarity: true after the transaction, false from the catch.
ReturnValue(r) == IF failed[r] THEN "false" ELSE "true"

\* ------------------------------------------------------------- initial state
MainInit ==
  /\ disk = [f \in Files |-> [present |-> TRUE, mtime |-> 1, text |-> InitialText(f)]]
  /\ edits = 0
  /\ store = EmptyStore
  /\ txOwner = NoRun
  /\ txSnap = EmptyStore
  /\ filesDb = {}
  /\ cacheOwner = NoRun
  /\ pc = [r \in Runs |-> "idle"]
  /\ processed = [r \in Runs |-> 0]
  /\ cancelled = [r \in Runs |-> FALSE]
  /\ code = [r \in Runs |-> <<>>]
  /\ fileArg = [r \in Runs |-> NoFile]
  /\ failed = [r \in Runs |-> FALSE]
  /\ vectors = [r \in Runs |-> <<>>]
  /\ result = [r \in Runs |-> "none"]
  /\ saw = [r \in Runs |-> {}]

ChunkIdle ==
  /\ cPhase = "off"
  /\ cText = <<>>
  /\ cSize = ChunkSize
  /\ cChunks = <<>>
  /\ cVectors = <<>>

SearchIdle ==
  /\ sPhase = "off"
  /\ sTable = {}
  /\ sResult = <<>>

MergeIdle ==
  /\ mPhase = "off"
  /\ mPairs = <<>>
  /\ mInput = <<>>
  /\ clonePairs = <<>>
  /\ mI = 0
  /\ mJ = 0
  /\ mOut = <<>>

Init == MainInit /\ ChunkIdle /\ SearchIdle /\ MergeIdle

\* ------------------------------------------------------------ analyzeAllFiles
\* The command is invoked: db = getDb(context), then migrate's first statement
\* (CREATE EXTENSION IF NOT EXISTS, which changes no table). Runs are named in
\* the order of their invocation.
Start(r) ==
  /\ pc[r] = "idle"
  /\ \A i \in DOMAIN RunOrder : RunOrder[i] = r => \A j \in 1..(i - 1) : pc[RunOrder[j]] # "idle"
  /\ pc' = [pc EXCEPT ![r] = "drop_chunks"]
  /\ UNCHANGED <<diskVars, storeVars, cacheVars, processed, cancelled, code,
                 fileArg, failed, vectors, result, saw, pureVars>>

\* migrate: DROP TABLE IF EXISTS code_chunks (its SERIAL sequence goes with it).
MigrateDropChunks(r) ==
  /\ pc[r] = "drop_chunks"
  /\ StoreFree
  /\ store' = [store EXCEPT !.hasChunks = FALSE, !.chunks = {}, !.nextId = 1]
  /\ pc' = [pc EXCEPT ![r] = "drop_files"]
  /\ UNCHANGED <<diskVars, txOwner, txSnap, cacheVars, processed, cancelled, code,
                 fileArg, failed, vectors, result, saw, pureVars>>

\* migrate: DROP TABLE IF EXISTS files. The statement is rejected while
\* code_chunks, which REFERENCES files, exists (another run has created it
\* again): migrate throws and analyzeAllFiles rejects.
MigrateDropFiles(r) ==
  /\ pc[r] = "drop_files"
  /\ StoreFree
  /\ IF store.hasChunks
     THEN /\ pc' = [pc EXCEPT ![r] = "store_error"]
          /\ UNCHANGED store
     ELSE /\ store' = [store EXCEPT !.hasFiles = FALSE, !.files = {}]
          /\ pc' = [pc EXCEPT ![r] = "create_files"]
  /\ UNCHANGED <<diskVars, txOwner, txSnap, cacheVars, processed, cancelled, code,
                 fileArg, failed, vectors, result, saw, pureVars>>

\* migrate: CREATE TABLE IF NOT EXISTS files.
MigrateCreateFiles(r) ==
  /\ pc[r] = "create_files"
  /\ StoreFree
  /\ store' = [store EXCEPT !.hasFiles = TRUE]
  /\ pc' = [pc EXCEPT ![r] = "create_chunks"]
  /\ UNCHANGED <<diskVars, txOwner, txSnap, cacheVars, processed, cancelled, code,
                 fileArg, failed, vectors, result, saw, pureVars>>

\* migrate: CREATE TABLE IF NOT EXISTS code_chunks (... REFERENCES files ...).
\* Creating it needs the table files (another run may have dropped it).
MigrateCreateChunks(r) ==
  /\ pc[r] = "create_chunks"
  /\ StoreFree
  /\ IF store.hasChunks
     THEN /\ pc' = [pc EXCEPT ![r] = "get_files"]
          /\ UNCHANGED store
     ELSE IF store.hasFiles
     THEN /\ store' = [store EXCEPT !.hasChunks = TRUE]
          /\ pc' = [pc EXCEPT ![r] = "get_files"]
     ELSE /\ pc' = [pc EXCEPT ![r] = "store_error"]
          /\ UNCHANGED store
  /\ UNCHANGED <<diskVars, txOwner, txSnap, cacheVars, processed, cancelled, code,
                 fileArg, failed, vectors, result, saw, pureVars>>

\* filesDb = await getFiles(db), then findFiles and the start of the loop
\* under withProgress. SELECT * FROM files throws when the table is missing.
GetFiles(r) ==
  /\ pc[r] = "get_files"
  /\ StoreFree
  /\ IF store.hasFiles
     THEN /\ filesDb' = store.files
          /\ cacheOwner' = r
          /\ pc' = [pc EXCEPT ![r] = "read"]
     ELSE /\ pc' = [pc EXCEPT ![r] = "store_error"]
          /\ UNCHANGED cacheVars
  /\ UNCHANGED <<diskVars, storeVars, processed, cancelled, code, fileArg,
                 failed, vectors, result, saw, pureVars>>

\* await vscode.workspace.fs.readFile(...) and the decode. The call is outside
\* every try block: when the file cannot be read the loop, and with it the
\* whole run, ends with the exception.
ReadFile(r) ==
  /\ pc[r] = "read"
  /\ IF disk[CurFile(r)].present
     THEN /\ code' = [code EXCEPT ![r] = disk[CurFile(r)].text]
          /\ pc' = [pc EXCEPT ![r] = "analyze"]
     ELSE /\ code' = [code EXCEPT ![r] = <<>>]
          /\ pc' = [pc EXCEPT ![r] = "read_error"]
  /\ fileArg' = [fileArg EXCEPT ![r] = NoFile]
  /\ vectors' = [vectors EXCEPT ![r] = <<>>]
  /\ result' = [result EXCEPT ![r] = "none"]
  /\ UNCHANGED <<diskVars, storeVars, cacheVars, processed, cancelled,
                 failed, saw, pureVars>>

\* processed++ and the next iteration of the loop, or the code after it.
AfterFile(r) == IF processed[r] + 1 < NumFiles THEN "read" ELSE "search"

\* analyzeFile up to its await: the lookup in filesDb, isModified, and for a
\* file to analyze the File argument with the date on disk or new Date(0).
AnalyzeFile(r) ==
  /\ pc[r] = "analyze"
  /\ IF isAnalyze(CurFile(r))
     THEN /\ fileArg' = [fileArg EXCEPT ![r] =
               [filepath |-> CurFile(r), modified_at |-> actualModifiedAt(CurFile(r))]]
          /\ pc' = [pc EXCEPT ![r] = "tx_begin"]
          /\ UNCHANGED <<processed, code>>
     ELSE /\ pc' = [pc EXCEPT ![r] = AfterFile(r)]
          /\ processed' = [processed EXCEPT ![r] = @ + 1]
          /\ code' = [code EXCEPT ![r] = <<>>]
          /\ UNCHANGED fileArg
  /\ UNCHANGED <<diskVars, storeVars, cacheVars, cancelled, failed, vectors, result,
                 saw, pureVars>>

\* TxBegin without db.transaction: the statements go to db one by one, and
\* the store is free for other queries between them.
TxBeginUnlocked(r) ==
  /\ pc[r] = "tx_begin"
  /\ StoreFree
  /\ txSnap' = store
  /\ pc' = [pc EXCEPT ![r] = "tx_delete"]
  /\ UNCHANGED <<diskVars, store, txOwner, cacheVars, processed, cancelled, code,
                 fileArg, failed, vectors, result, saw, pureVars>>

\* db.transaction(async (tx) => ...): BEGIN, once the store is free.
TxBegin(r) ==
  /\ pc[r] = "tx_begin"
  /\ StoreFree
  /\ txOwner' = r
  /\ txSnap' = store
  /\ pc' = [pc EXCEPT ![r] = "tx_delete"]
  /\ UNCHANGED <<diskVars, store, cacheVars, processed, cancelled, code,
                 fileArg, failed, vectors, result, saw, pureVars>>

\* await deleteEmbeddings(tx, file.filepath)
TxDelete(r) ==
  /\ pc[r] = "tx_delete"
  /\ IF store.hasChunks
     THEN /\ store' = deleteEmbeddings(store, fileArg[r].filepath)
          /\ pc' = [pc EXCEPT ![r] = "tx_upsert"]
          /\ UNCHANGED failed
     ELSE /\ failed' = [failed EXCEPT ![r] = TRUE]
          /\ pc' = [pc EXCEPT ![r] = "tx_end"]
          /\ UNCHANGED store
  /\ UNCHANGED <<diskVars, txOwner, txSnap, cacheVars, processed, cancelled, code,
                 fileArg, vectors, result, saw, pureVars>>

\* await upsertFile(tx, file)
TxUpsert(r) ==
  /\ pc[r] = "tx_upsert"
  /\ IF store.hasFiles
     THEN /\ store' = upsertFile(store, fileArg[r])
          /\ pc' = [pc EXCEPT ![r] = "tx_embed"]
          /\ UNCHANGED failed
     ELSE /\ failed' = [failed EXCEPT ![r] = TRUE]
          /\ pc' = [pc EXCEPT ![r] = "tx_end"]
          /\ UNCHANGED store
  /\ UNCHANGED <<diskVars, txOwner, txSnap, cacheVars, processed, cancelled, code,
                 fileArg, vectors, result, saw, pureVars>>

\* await generateEmbeddings(chunks, chunkSize, file.filepath), on the chunks
\* splitCodeIntoChunks cut from the content read before the transaction.
TxEmbed(r) ==
  /\ pc[r] = "tx_embed"
  /\ \E outcome \in ProviderOutcomes :
       LET chunks == splitCodeIntoChunks(code[r], ChunkSize) IN
       IF outcome = "throw"
       THEN /\ failed' = [failed EXCEPT ![r] = TRUE]
            /\ pc' = [pc EXCEPT ![r] = "tx_end"]
            /\ UNCHANGED vectors
       ELSE /\ vectors' = [vectors EXCEPT ![r] =
                 generateEmbeddings(chunks, ChunkSize, fileArg[r].filepath,
                                    ProviderDims(Len(chunks), outcome))]
            /\ pc' = [pc EXCEPT ![r] = "tx_insert"]
            /\ UNCHANGED failed
  /\ UNCHANGED <<diskVars, storeVars, cacheVars, processed, cancelled, code,
                 fileArg, result, saw, pureVars>>

\* await insertEmbeddings(tx, vectors, workspace): nothing for no vector, else
\* one INSERT that is applied or rejected as a whole.
TxInsert(r) ==
  /\ pc[r] = "tx_insert"
  /\ IF vectors[r] = <<>>
     THEN UNCHANGED <<store, failed>>
     ELSE IF InsertRejected(store, vectors[r])
     THEN /\ failed' = [failed EXCEPT ![r] = TRUE]
          /\ UNCHANGED store
     ELSE /\ store' = insertEmbeddings(store, vectors[r])
          /\ UNCHANGED failed
  /\ pc' = [pc EXCEPT ![r] = "tx_end"]
  /\ UNCHANGED <<diskVars, txOwner, txSnap, cacheVars, processed, cancelled, code,
                 fileArg, vectors, result, saw, pureVars>>

\* The transaction ends (COMMIT or ROLLBACK), analyzeCodeSimilarity returns,
\* analyzeFile returns, processed++.
TxEnd(r) ==
  /\ pc[r] = "tx_end"
  /\ store' = StoreAfterTx(r)
  /\ txOwner' = NoRun
  /\ txSnap' = EmptyStore
  /\ result' = [result EXCEPT ![r] = ReturnValue(r)]
  /\ failed' = [failed EXCEPT ![r] = FALSE]
  /\ code' = [code EXCEPT ![r] = <<>>]
  /\ processed' = [processed EXCEPT ![r] = @ + 1]
  /\ pc' = [pc EXCEPT ![r] = AfterFile(r)]
  /\ UNCHANGED <<diskVars, cacheVars, cancelled, fileArg, vectors, saw, pureVars>>

\* getCalculatedSimilarities: calculateSimilarity(db, workspace), one query on
\* code_chunks; it throws when the table is missing.
Search(r) ==
  /\ pc[r] = "search"
  /\ StoreFree
  /\ IF store.hasChunks
     THEN /\ saw' = [saw EXCEPT ![r] = store.chunks]
          /\ pc' = [pc EXCEPT ![r] = "done"]
     ELSE /\ pc' = [pc EXCEPT ![r] = "search_error"]
          /\ UNCHANGED saw
  /\ fileArg' = [fileArg EXCEPT ![r] = NoFile]
  /\ vectors' = [vectors EXCEPT ![r] = <<>>]
  /\ result' = [result EXCEPT ![r] = "none"]
  /\ UNCHANGED <<diskVars, storeVars, cacheVars, processed, cancelled, code,
                 failed, pureVars>>

\* The positions of a run inside the replace_file transaction.
TxPcs == {"tx_delete", "tx_upsert", "tx_embed", "tx_insert", "tx_end"}

\* The positions of a run inside the withProgress callback.
LoopPcs == {"read", "analyze", "tx_begin"} \cup TxPcs

\* The user presses Cancel on the progress notification (cancellable: true):
\* the CancellationToken `token` is cancelled. The callback never reads it.
Cancel(r) ==
  /\ pc[r] \in LoopPcs \cup {"search"}
  /\ ~cancelled[r]
  /\ cancelled' = [cancelled EXCEPT ![r] = TRUE]
  /\ UNCHANGED <<diskVars, storeVars, cacheVars, pc, processed, code,
                 fileArg, failed, vectors, result, saw, pureVars>>

\* A workspace file is saved with another content: a later modification time.
EditFile(f) ==
  /\ edits < MaxEdits
  /\ disk' = [disk EXCEPT ![f] = [present |-> TRUE, mtime |-> disk[f].mtime + 1,
                                  text |-> NextText(disk[f].text)]]
  /\ edits' = edits + 1
  /\ UNCHANGED <<storeVars, cacheVars, runVars, pureVars>>

\* A workspace file is removed (or made inaccessible): reading it and reading
\* its modification time fail from now on.
RemoveFile(f) ==
  /\ edits < MaxEdits
  /\ disk[f].present
  /\ disk' = [disk EXCEPT ![f].present = FALSE]
  /\ edits' = edits + 1
  /\ UNCHANGED <<storeVars, cacheVars, runVars, pureVars>>

RunStep(r) ==
  \/ Start(r)
  \/ MigrateDropChunks(r)
  \/ MigrateDropFiles(r)
  \/ MigrateCreateFiles(r)
  \/ MigrateCreateChunks(r)
  \/ GetFiles(r)
  \/ ReadFile(r)
  \/ AnalyzeFile(r)
  \/ TxBegin(r)
  \/ TxDelete(r)
  \/ TxUpsert(r)
  \/ TxEmbed(r)
  \/ TxInsert(r)
  \/ TxEnd(r)
  \/ Search(r)

DiskStep == \E f \in Files : EditFile(f) \/ RemoveFile(f)

\* Overlapping invocations of the command; nobody cancels.
Next == (\E r \in Runs : RunStep(r)) \/ DiskStep

Spec == Init /\ [][Next]_vars

\* One invocation of the command, which the user may cancel.
NextCancel == RunStep(FirstRun) \/ Cancel(FirstRun) \/ DiskStep

SpecCancel == Init /\ [][NextCancel]_vars


\* ---------------------------------------------------------------- SpecChunk
\* The chunker and generateEmbeddings on every text of at most MaxTextLen
\* characters over ChunkAlphabet and every window size 1..MaxWindow.
ChunkAlphabet == {"a", " ", "\n", "<", ">"}

ChunkTexts == UNION {[1..n -> ChunkAlphabet] : n \in 0..MaxTextLen}

ChunkInit ==
  /\ cPhase = "input"
  /\ cText \in ChunkTexts
  /\ cSize \in 1..MaxWindow
  /\ cChunks = <<>>
  /\ cVectors = <<>>

\* const chunks = splitCodeIntoChunks(code, chunkSize)
ChunkSplit ==
  /\ cPhase = "input"
  /\ cChunks' = splitCodeIntoChunks(cText, cSize)
  /\ cPhase' = "chunked"
  /\ UNCHANGED <<mainVars, searchVars, mergeVars, cText, cSize, cVectors>>

\* const vectors = await generateEmbeddings(chunks, chunkSize, file.filepath)
ChunkEmbed ==
  /\ cPhase = "chunked"
  /\ cVectors' = generateEmbeddings(cChunks, cSize, FileList[1],
                                    ProviderDims(Len(cChunks), "ok"))
  /\ cPhase' = "embedded"
  /\ UNCHANGED <<mainVars, searchVars, mergeVars, cText, cSize, cChunks>>

NextChunk == ChunkSplit \/ ChunkEmbed

InitChunk == MainInit /\ ChunkInit /\ SearchIdle /\ MergeIdle

SpecChunk == InitChunk /\ [][NextChunk]_vars

\* --------------------------------------------------------------- SpecSearch
\* calculateSimilarity as a function of the rows of code_chunks. Distances and
\* similarities are counted in hundredths: 0.20 is 20, 1 - d is 100 - d.

\* The workspace path given as $1; every row is inserted with it.
SearchWorkspace == "ws"

\* The embeddings of the chunks that resemble another chunk.
Kinds == {"e1", "e2", "e3"}

\* a.embedding <=> b.embedding, the cosine distance: nothing between equal
\* vectors, 0.10, 0.15 and 0.20 between the kinds, 1 (orthogonal) for a chunk
\* that resembles no other.
CosineDistance(x, y) ==
  IF x = y THEN 0
  ELSE IF x.kind = "u" \/ y.kind = "u" THEN 100
  ELSE IF {x.kind, y.kind} = {"e1", "e2"} THEN 10
  ELSE IF {x.kind, y.kind} = {"e2", "e3"} THEN 15
  ELSE 20

\* The join condition with a.id <> b.id.
IdDiffers(a, b) == a.id # b.id

\* a.id < b.id
IdOrder(a, b) == a.id < b.id

\* JOIN code_chunks b ON a.id < b.id AND a.workspace = b.workspace
\*   AND a.workspace = $1 AND (a.embedding <=> b.embedding) < 0.20
JoinOn(a, b, workspace) ==
  /\ IdOrder(a, b)
  /\ a.workspace = b.workspace
  /\ a.workspace = workspace
  /\ CosineDistance(a.embedding, b.embedding) < CoarseDistance

\* LIMIT n on a query without ORDER BY: any n of the rows.
Limit(rows, n) ==
  IF Cardinality(rows) <= n THEN {rows}
  ELSE {part \in SUBSET rows : Cardinality(part) = n}

\* potential_pairs: SELECT a.id AS id1, b.id AS id2 ... LIMIT 100000
potential_pairs(table, workspace) ==
  Limit(UNION {{<<a.id, b.id>> : b \in {row \in table : JoinOn(a, row, workspace)}} : a \in table},
        CandidateCap)

\* 1 - (a.embedding <=> b.embedding) with the distance halved.
similarity_rawHalved(a, b) == 100 - (CosineDistance(a.embedding, b.embedding) \div 2)

\* 1 - (a.embedding <=> b.embedding) AS similarity_raw
similarity_raw(a, b) == 100 - CosineDistance(a.embedding, b.embedding)

Abs(n) == IF n < 0 THEN 0 - n ELSE n

\* The WHERE of filtered_pairs with >= 5.
NotAdjacentLoose(a, b) == a.file # b.file \/ Abs(a.start_line - b.start_line) >= AdjacentLines

\* WHERE (a.file != b.file OR ABS(a.start_line - b.start_line) > 5)
NotAdjacent(a, b) == a.file # b.file \/ Abs(a.start_line - b.start_line) > AdjacentLines

\* filtered_pairs: potential_pairs joined back to code_chunks on both ids.
filtered_pairs(pp, table) ==
  LET row(id) == CHOOSE r \in table : r.id = id
  IN {[chunks |-> <<row(ids[1]), row(ids[2])>>,
       similarity_raw |-> similarity_raw(row(ids[1]), row(ids[2]))] :
        ids \in {p \in pp : NotAdjacent(row(p[1]), row(p[2]))}}

\* The order of file paths as texts: FileList is in that order.
FileIndex(f) == CHOOSE i \in 1..NumFiles : FileList[i] = f

\* LEAST and GREATEST of two file paths.
LeastFile(f, g) == IF FileIndex(f) <= FileIndex(g) THEN f ELSE g

GreatestFile(f, g) == IF FileIndex(f) <= FileIndex(g) THEN g ELSE f

\* PARTITION BY LEAST(file1, file2) || '|' || GREATEST(file1, file2),
\*              (LEAST(start_line1, start_line2) / 5) * 5
PartitionKey(p) ==
  <<LeastFile(p.chunks[1].file, p.chunks[2].file) \o "|" \o
      GreatestFile(p.chunks[1].file, p.chunks[2].file),
    (Min(p.chunks[1].start_line, p.chunks[2].start_line) \div BucketLines) * BucketLines>>

\* The rows ROW_NUMBER can number 1 with ORDER BY similarity_raw ASC.
FirstOfPartitionAsc(key, rows) ==
  {p \in rows : /\ PartitionKey(p) = key
                /\ \A q \in rows : PartitionKey(q) = key => q.similarity_raw >= p.similarity_raw}

\* The rows ROW_NUMBER() OVER (PARTITION BY ... ORDER BY similarity_raw DESC)
\* can number 1 in a partition: any one of the highest similarity.
FirstOfPartition(key, rows) ==
  {p \in rows : /\ PartitionKey(p) = key
                /\ \A q \in rows : PartitionKey(q) = key => q.similarity_raw <= p.similarity_raw}

\* One row of match_rank 1 for each partition of `keys`.
RECURSIVE RankOne(_, _)
RankOne(keys, rows) ==
  IF keys = {} THEN {{}}
  ELSE LET key == CHOOSE k \in keys : TRUE
       IN {rest \cup {p} : rest \in RankOne(keys \ {key}, rows),
                           p \in FirstOfPartition(key, rows)}

\* ranked_results WHERE match_rank = 1: the ways to keep one row of each
\* partition among the filtered pairs with similarity_raw > 0.80.
ranked_results(filtered) ==
  LET passing == {p \in filtered : p.similarity_raw > FineSimilarity}
  IN RankOne({PartitionKey(p) : p \in passing}, passing)

\* ORDER BY similarity_raw DESC: the orders a sort can give, ties in any order.
RECURSIVE OrderByDesc(_)
OrderByDesc(rows) ==
  IF rows = {} THEN {<<>>}
  ELSE UNION {{<<p>> \o rest : rest \in OrderByDesc(rows \ {p})} :
                p \in {x \in rows : \A y \in rows : y.similarity_raw <= x.similarity_raw}}

\* json_build_object('id', .., 'start_line', .., 'end_line', .., 'file', ..)
ChunkJson(row) ==
  [id |-> row.id, start_line |-> row.start_line, end_line |-> row.end_line, file |-> row.file]

\* json_build_object('chunks', json_build_array(..), 'similarity', similarity_raw)
ResultJson(p) ==
  [chunks |-> <<ChunkJson(p.chunks[1]), ChunkJson(p.chunks[2])>>, similarity |-> p.similarity_raw]

\* calculateSimilarity: every result.rows.map((r) => r.result) the query can
\* give on a table.
calculateSimilarity(table, workspace) ==
  {[k \in 1..Min(Len(sorted), ResultLimit) |-> ResultJson(sorted[k])] :
     sorted \in UNION {OrderByDesc(ranked) :
                  ranked \in UNION {ranked_results(filtered_pairs(pp, table)) :
                                pp \in potential_pairs(table, workspace)}}}

\* The windows a file of the table has: a.ts MaxRows, the others 2 fewer.
WindowsOf(f) == IF f = FileList[1] THEN MaxRows ELSE MaxRows - 2

Slots == {<<f, k>> : f \in Files, k \in 1..MaxRows} \cap
         UNION {{<<f, k>> : k \in 1..WindowsOf(f)} : f \in Files}

\* The file whose rows were inserted first: a.ts was analysed again after b.ts.
FirstInserted == FileList[NumFiles]

\* The id the SERIAL column gave window k of file f when the rows of file
\* `first` were inserted before those of the other file.
SerialId(f, k, first) == IF f = first THEN k ELSE WindowsOf(first) + k

\* A table as the runs leave it: for each file the windows 1..n of one INSERT,
\* with consecutive ids; `like` gives the embedding kind of the chunks that
\* resemble another one.
TableOf(first, like) ==
  {[id         |-> SerialId(slot[1], slot[2], first),
    start_line |-> StartLine(slot[2] - 1, ChunkSize),
    end_line   |-> StartLine(slot[2] - 1, ChunkSize) + ChunkSize - 1,
    file       |-> slot[1],
    workspace  |-> SearchWorkspace,
    embedding  |-> IF slot \in DOMAIN like
                   THEN [kind |-> like[slot], of |-> 0]
                   ELSE [kind |-> "u", of |-> SerialId(slot[1], slot[2], first)]] :
     slot \in Slots}

\* The sets of at most MaxSimilar chunks that resemble another chunk.
SimilarSlots == {hot \in SUBSET Slots : Cardinality(hot) <= MaxSimilar}

SearchInit ==
  /\ sPhase = "table"
  /\ \E hot \in SimilarSlots : \E like \in [hot -> Kinds] :
       sTable = TableOf(FirstInserted, like)
  /\ sResult = <<>>

\* const similarityResults = await calculateSimilarity(db, workspace)
CalculateSimilarity ==
  /\ sPhase = "table"
  /\ sResult' \in calculateSimilarity(sTable, SearchWorkspace)
  /\ sPhase' = "done"
  /\ UNCHANGED <<mainVars, chunkVars, mergeVars, sTable>>

NextSearch == CalculateSimilarity

InitSearch == MainInit /\ ChunkIdle /\ SearchInit /\ MergeIdle

SpecSearch == InitSearch /\ [][NextSearch]_vars

\* ---------------------------------------------------------------- SpecMerge
\* mergePairs on every list of at most MaxPairs distinct pairs of chunks with
\* ids 1..MaxId, lower id first, as calculateSimilarity returns them. A chunk
\* is written as its id (a SERIAL value, never 0), a SimilarityResult as the
\* sequence of its chunks; the other fields are carried along untouched.
CanonicalPairs == {<<x, y>> : x \in 1..MaxId, y \in 1..MaxId} \cap
                  UNION {{<<x, y>> : y \in (x + 1)..MaxId} : x \in 1..MaxId}

PairLists ==
  UNION {{q \in [1..n -> CanonicalPairs] : \A k, l \in 1..n : k # l => q[k] # q[l]} :
           n \in 0..MaxPairs}

\* list.chunks.map((c) => c.id)
Ids(chunks) == {chunks[k] : k \in 1..Len(chunks)}

\* if (list.chunks.length <= 1) continue
SkipList(list) == Len(list) <= 1

\* if (pair2.chunks.length !== 2) continue
SkipPair(pair2) == Len(pair2) # 2

\* pair2.chunks[0]?.id && list.chunks.map((c) => c.id).includes(pair2.chunks[0]?.id)
FirstTest(list, pair2) ==
  /\ Len(pair2) >= 1
  /\ pair2[1] # 0
  /\ pair2[1] \in Ids(list)

\* The second test reading pair2.chunks[0] again.
SecondTestOnFirst(list, pair2) ==
  /\ Len(pair2) >= 1
  /\ pair2[1] # 0
  /\ pair2[1] \in Ids(list)

\* pair2.chunks[1]?.id && list.chunks.map((c) => c.id).includes(pair2.chunks[1]?.id)
SecondTest(list, pair2) ==
  /\ Len(pair2) >= 2
  /\ pair2[2] # 0
  /\ pair2[2] \in Ids(list)

\* pop() that leaves the array as it is.
PopKeeps(chunks) == chunks

\* The array after chunks.pop().
Pop(chunks) == SubSeq(chunks, 1, Len(chunks) - 1)

\* shift() that leaves the array as it is.
ShiftKeeps(chunks) == chunks

\* The array after chunks.shift().
Shift(chunks) == SubSeq(chunks, 2, Len(chunks))

\* The first if of the inner loop: list.chunks.push(pair2.chunks.pop()).
TakeLast(clusters, i, j) ==
  IF FirstTest(clusters[i + 1], clusters[j + 1])
  THEN [clusters EXCEPT ![i + 1] = Append(@, clusters[j + 1][Len(clusters[j + 1])]),
                        ![j + 1] = Pop(@)]
  ELSE clusters

\* The second if of the inner loop: list.chunks.push(pair2.chunks.shift()).
TakeFirst(clusters, i, j) ==
  IF SecondTest(clusters[i + 1], clusters[j + 1])
  THEN [clusters EXCEPT ![i + 1] = Append(@, clusters[j + 1][1]),
                        ![j + 1] = Shift(@)]
  ELSE clusters

\* One iteration of the inner loop.
InnerBody(clusters, i, j) ==
  IF SkipPair(clusters[j + 1]) THEN clusters
  ELSE TakeFirst(TakeLast(clusters, i, j), i, j)

\* The final filter with p.chunks.length > 0.
FilterNonEmpty(clusters) == SelectSeq(clusters, LAMBDA p : Len(p) > 0)

\* return clonePairs.filter((p) => p.chunks.length > 1)
FilterGroups(clusters) == SelectSeq(clusters, LAMBDA p : Len(p) > 1)

\* JSON.parse(JSON.stringify(pairs)) with a copy of the outer array only,
\* [...pairs]: the clusters are the caller's pair objects.
SharesChunksShallow == TRUE

\* JSON.parse(JSON.stringify(pairs)) is a deep copy: clonePairs shares no
\* object with the caller's `pairs`.
SharesChunks == FALSE

MergeInit ==
  /\ mPhase = "call"
  /\ mPairs \in PairLists
  /\ mInput = mPairs
  /\ clonePairs = <<>>
  /\ mI = 0
  /\ mJ = 0
  /\ mOut = <<>>

\* const clonePairs = JSON.parse(JSON.stringify(pairs)); i = 0
MergeClone ==
  /\ mPhase = "call"
  /\ clonePairs' = mPairs
  /\ mI' = 0
  /\ mPhase' = "outer"
  /\ UNCHANGED <<mainVars, chunkVars, searchVars, mPairs, mInput, mJ, mOut>>

\* The outer loop at cluster i: leave the loop, skip the cluster, or start
\* the inner loop at j = i + 1.
MergeOuter ==
  /\ mPhase = "outer"
  /\ IF mI >= Len(clonePairs)
     THEN mPhase' = "filter" /\ UNCHANGED <<mI, mJ>>
     ELSE IF SkipList(clonePairs[mI + 1])
          THEN mI' = mI + 1 /\ UNCHANGED <<mPhase, mJ>>
          ELSE mJ' = mI + 1 /\ mPhase' = "inner" /\ UNCHANGED mI
  /\ UNCHANGED <<mainVars, chunkVars, searchVars, mPairs, mInput, clonePairs, mOut>>

\* The inner loop at cluster j: one iteration, or its end and i++.
MergeInner ==
  /\ mPhase = "inner"
  /\ IF mJ < Len(clonePairs)
     THEN /\ clonePairs' = InnerBody(clonePairs, mI, mJ)
          /\ mPairs' = IF SharesChunks THEN clonePairs' ELSE mPairs
          /\ mJ' = mJ + 1
          /\ UNCHANGED <<mI, mPhase>>
     ELSE /\ mI' = mI + 1
          /\ mPhase' = "outer"
          /\ UNCHANGED <<clonePairs, mPairs, mJ>>
  /\ UNCHANGED <<mainVars, chunkVars, searchVars, mInput, mOut>>

\* return clonePairs.filter(...)
MergeReturn ==
  /\ mPhase = "filter"
  /\ mOut' = FilterGroups(clonePairs)
  /\ mPhase' = "done"
  /\ UNCHANGED <<mainVars, chunkVars, searchVars, mPairs, mInput, clonePairs, mI, mJ>>

NextMerge == MergeClone \/ MergeOuter \/ MergeInner \/ MergeReturn

InitMerge == MainInit /\ ChunkIdle /\ SearchIdle /\ MergeInit

SpecMerge == InitMerge /\ [][NextMerge]_vars

\* ------------------------------------------------------------------ helpers
RowsOf(s, f) == {c \in s.chunks : c.file = f}

RecordsOf(s, f) == {x \in s.files : x.filepath = f}

\* How analyzeAllFiles can end: after the search, or with an exception.
Ended == {"done", "read_error", "store_error", "search_error"}

\* The ends that come from the store being unavailable.
StoreFatal == {"store_error", "search_error"}

\* The number of "\n"-separated lines of a text.
LineCount(text) == 1 + Cardinality({i \in 1..Len(text) : text[i] = NL})

\* Where line k (1-based) of a text starts and ends: after the (k-1)-th
\* separator, before the k-th.
SepBefore(text, k) ==
  IF k = 1 THEN 0
  ELSE CHOOSE p \in 1..Len(text) :
         text[p] = NL /\ Cardinality({q \in 1..p : text[q] = NL}) = k - 1

SepAfter(text, k) ==
  IF k = LineCount(text) THEN Len(text) + 1
  ELSE CHOOSE p \in 1..Len(text) :
         text[p] = NL /\ Cardinality({q \in 1..p : text[q] = NL}) = k

\* The raw text of lines k .. k + w - 1, separators between them included.
RawSpan(text, k, w) == SubSeq(text, SepBefore(text, k) + 1, SepAfter(text, k + w - 1) - 1)

\* --------------------------------------------------------------------- C1
\* C1: replace_file is atomic under failure. When the transaction of
\* analyzeCodeSimilarity ends after one of its steps has failed, the chunk
\* rows and File records of the store are those of before the transaction,
\* and analyzeCodeSimilarity returns false.
C1_RollbackRestores ==
  [][\A r \in Runs :
       (pc[r] = "tx_end" /\ failed[r] /\ pc'[r] # "tx_end")
         => /\ store'.chunks = txSnap.chunks
            /\ store'.files = txSnap.files
            /\ result'[r] = "false"]_vars

\* A replace_file that failed at the INSERT, after its DELETE and its upsert:
\* it has returned false and the File record it wrote is not in the store.
C1_Witness ==
  \E r \in Runs :
    /\ result[r] = "false"
    /\ vectors[r] # <<>>
    /\ txOwner = NoRun
    /\ store.hasFiles
    /\ fileArg[r] \notin store.files

UpToDate(f) ==
  \E x \in RecordsOf(Committed, f) : disk[f].present /\ x.modified_at = disk[f].mtime

\* C3 (as claimed): the index is incremental across runs. When a run works
\* with no other run in progress (each other run has completed or has not
\* started), no step of it changes the chunk rows or the File record of a
\* file that is up to date.
C3_IndexKeptAcrossRuns ==
  [][\A r \in Runs :
       (pc'[r] # pc[r] /\ \A q \in Runs \ {r} : pc[q] \in {"idle", "done"})
         => \A f \in Files :
              UpToDate(f) => /\ RowsOf(Committed', f) = RowsOf(Committed, f)
                             /\ RecordsOf(Committed', f) = RecordsOf(Committed, f)]_vars

\* --------------------------------------------------------------------- C4
\* C4 (as claimed): once the user has cancelled, the loop of analyzeAllFiles
\* does not go on to another file.
C4_CancelStopsIteration ==
  [][\A r \in Runs :
       (cancelled[r] /\ processed'[r] = processed[r] + 1) => pc'[r] # "read"]_vars

\* --------------------------------------------------------------------- C5
\* C5 (as claimed): a failure on one file never aborts the batch. A run that
\* has ended, and not on an unavailable store, has handled every file and has
\* done the similarity search.
C5_FileFailureNeverAborts ==
  \A r \in Runs :
    pc[r] \in Ended \ StoreFatal => processed[r] = NumFiles /\ pc[r] = "done"

C7_CachePrivateToRun ==
  \A r \in Runs : pc[r] = "analyze" => cacheOwner = r

\* --------------------------------------------------------------------- C8
\* C8 (as claimed): when the modification time of the file cannot be read,
\* analyzeFile goes on without analyzing the file.
C8_UnreadableDateSkips ==
  [][\A r \in Runs :
       (pc[r] = "analyze" /\ ~disk[CurFile(r)].present) => pc'[r] # "tx_begin"]_vars

\* --------------------------------------------------------------------- C9
\* C9: splitCodeIntoChunks(text, w) returns max(0, line_count - w + 1) windows,
\* none when line_count < w; window i is the normalized text of the lines
\* i .. i + w - 1 of the text, a span of exactly w lines.
C9_WindowCount ==
  cPhase \in {"chunked", "embedded"}
    => /\ Len(cChunks) = Max(0, LineCount(cText) - cSize + 1)
       /\ \A i \in 1..Len(cChunks) :
            /\ LineCount(RawSpan(cText, i, cSize)) = cSize
            /\ cChunks[i] = normalizeChunk(RawSpan(cText, i, cSize))

\* A text with more lines than the window: at least two windows.
C9_Witness == cPhase = "chunked" /\ Len(cChunks) >= 2 /\ cSize >= 2

\* -------------------------------------------------------------------- C10
\* C10: every chunk built for a file has start_line = i + 1 for its 0-based
\* window index i and spans ChunkSize lines; the chunk rows of a file have the
\* start lines 1..n, n the number of its rows.
C10_LineNumbers ==
  /\ \A r \in Runs : \A k \in 1..Len(vectors[r]) :
       /\ vectors[r][k].start_line = (k - 1) + 1
       /\ vectors[r][k].end_line - vectors[r][k].start_line + 1 = ChunkSize
  /\ \A r \in Runs :
       pc[r] \in {"tx_insert", "tx_end"} /\ ~failed[r]
         => Len(vectors[r]) = Max(0, LineCount(code[r]) - ChunkSize + 1)
  /\ \A c \in store.chunks : c.end_line - c.start_line + 1 = ChunkSize
  /\ \A f \in Files :
       {c.start_line : c \in RowsOf(store, f)} = 1..Cardinality(RowsOf(store, f))

\* The store holds the rows of a file of two windows.
C10_Witness == \E f \in Files : Cardinality(RowsOf(store, f)) >= 2

\* ------------------------------------------------------------ search claims
\* The row of the table a returned chunk names.
RowOfId(id) == CHOOSE row \in sTable : row.id = id

\* The pairs of rows of the table that are in the searched workspace, are not
\* trivially adjacent and are more than 0.80 similar.
Eligible ==
  UNION {{<<a, b>> : b \in {row \in sTable :
                              /\ a.id < row.id
                              /\ row.workspace = SearchWorkspace
                              /\ (a.file # row.file \/ Abs(a.start_line - row.start_line) > 5)
                              /\ 100 - CosineDistance(a.embedding, row.embedding) > 80}} :
           a \in {row \in sTable : row.workspace = SearchWorkspace}}

\* The (unordered file pair, 5-line bucket of the smaller start line) of two chunks.
BucketOf(c, d) == <<{c.file, d.file}, 5 * (Min(c.start_line, d.start_line) \div 5)>>

\* C11: calculateSimilarity reports two chunks of distinct ids at most once,
\* and in every returned pair the first chunk has the lower id.
C11_CanonicalPairs ==
  sPhase = "done" =>
    /\ \A k \in 1..Len(sResult) : sResult[k].chunks[1].id < sResult[k].chunks[2].id
    /\ \A k, l \in 1..Len(sResult) :
         k # l => {sResult[k].chunks[1].id, sResult[k].chunks[2].id}
                  # {sResult[l].chunks[1].id, sResult[l].chunks[2].id}

\* Two pairs are returned, one of them between chunks of both files with the
\* lower id in the file that comes later.
C11_Witness ==
  /\ sPhase = "done"
  /\ Len(sResult) >= 2
  /\ \E k \in 1..Len(sResult) :
       FileIndex(sResult[k].chunks[1].file) > FileIndex(sResult[k].chunks[2].file)

\* C12: the result holds at most one pair for each (unordered file pair,
\* 5-line bucket of the smaller start line), and that pair is at least as
\* similar as every pair of the bucket that passed the adjacency filter and
\* the threshold.
C12_OnePerBucket ==
  sPhase = "done" =>
    /\ \A k, l \in 1..Len(sResult) :
         k # l => BucketOf(sResult[k].chunks[1], sResult[k].chunks[2])
                  # BucketOf(sResult[l].chunks[1], sResult[l].chunks[2])
    /\ \A p \in Eligible : \A k \in 1..Len(sResult) :
         BucketOf(p[1], p[2]) = BucketOf(sResult[k].chunks[1], sResult[k].chunks[2])
         => sResult[k].similarity >= 100 - CosineDistance(p[1].embedding, p[2].embedding)

\* Two buckets have results, and one of them had a less similar candidate too.
C12_Witness ==
  /\ sPhase = "done"
  /\ Len(sResult) >= 2
  /\ \E k \in 1..Len(sResult) : \E p \in Eligible :
       /\ BucketOf(p[1], p[2]) = BucketOf(sResult[k].chunks[1], sResult[k].chunks[2])
       /\ sResult[k].similarity > 100 - CosineDistance(p[1].embedding, p[2].embedding)

\* C13: every returned pair has a similarity above 0.80, the similarity being
\* 1 - the cosine distance of the embeddings of its two chunks.
C13_AboveThreshold ==
  sPhase = "done" =>
    \A k \in 1..Len(sResult) :
      /\ sResult[k].similarity > 80
      /\ sResult[k].similarity =
           100 - CosineDistance(RowOfId(sResult[k].chunks[1].id).embedding,
                                RowOfId(sResult[k].chunks[2].id).embedding)

\* A pair is returned while two chunks of different files that are exactly
\* 0.80 similar are not.
C13_Witness ==
  /\ sPhase = "done"
  /\ Len(sResult) >= 1
  /\ \E a, b \in sTable :
       /\ a.id < b.id /\ a.file # b.file
       /\ CosineDistance(a.embedding, b.embedding) = 20
       /\ \A k \in 1..Len(sResult) :
            {sResult[k].chunks[1].id, sResult[k].chunks[2].id} # {a.id, b.id}

\* C14: in every returned pair the chunks are in different files or their
\* start lines are more than 5 apart.
C14_NotAdjacent ==
  sPhase = "done" =>
    \A k \in 1..Len(sResult) :
      \/ sResult[k].chunks[1].file # sResult[k].chunks[2].file
      \/ Abs(sResult[k].chunks[1].start_line - sResult[k].chunks[2].start_line) > 5

\* A pair of one file is returned while two equal chunks of that file 5 lines
\* apart are not.
C14_Witness ==
  /\ sPhase = "done"
  /\ \E k \in 1..Len(sResult) : sResult[k].chunks[1].file = sResult[k].chunks[2].file
  /\ \E a, b \in sTable :
       /\ a.file = b.file /\ b.start_line - a.start_line = 5
       /\ a.embedding = b.embedding

\* ------------------------------------------------------------- merge claims
\* Section 4.4 as a function. For each cluster i in order that holds more
\* than 1 chunk, every later cluster j that holds exactly 2 chunks is tested:
\* j's first id among i's ids moves j's last chunk into i; j's second id among
\* i's ids moves j's first chunk into i. With `independent` both tests look
\* at j and i as they are when j is reached; without it the second test is
\* made only when the first has moved nothing.
RECURSIVE ScanLater(_, _, _, _)
ScanLater(clusters, i, j, independent) ==
  IF j > Len(clusters) THEN clusters
  ELSE IF Len(clusters[j]) # 2 THEN ScanLater(clusters, i, j + 1, independent)
  ELSE LET first  == clusters[j][1]
           second == clusters[j][2]
           byFirst  == first \in Ids(clusters[i])
           bySecond == second \in Ids(clusters[i]) /\ (independent \/ ~byFirst)
           moved == (IF byFirst THEN <<second>> ELSE <<>>) \o
                    (IF bySecond THEN <<first>> ELSE <<>>)
           left  == (IF bySecond THEN <<>> ELSE <<first>>) \o
                    (IF byFirst THEN <<>> ELSE <<second>>)
       IN ScanLater([clusters EXCEPT ![i] = @ \o moved, ![j] = left],
                    i, j + 1, independent)

RECURSIVE OnePass(_, _, _)
OnePass(clusters, i, independent) ==
  IF i > Len(clusters) THEN clusters
  ELSE IF Len(clusters[i]) <= 1 THEN OnePass(clusters, i + 1, independent)
  ELSE OnePass(ScanLater(clusters, i, i + 1, independent), i + 1, independent)

GroupMerge(pairs, independent) ==
  SelectSeq(OnePass(pairs, 1, independent), LAMBDA c : Len(c) > 1)

\* The number of chunk entries over all clusters.
RECURSIVE TotalChunks(_)
TotalChunks(clusters) ==
  IF clusters = <<>> THEN 0 ELSE Len(Head(clusters)) + TotalChunks(Tail(clusters))

\* The positions of the input pairs a group starts with.
StartsOf(group) ==
  {k \in 1..Len(mInput) : Len(group) >= 2 /\ mInput[k] = <<group[1], group[2]>>}

\* C15: mergePairs returns only groups of 2 chunks or more, and the groups
\* come in the order of the input pairs they started from.
C15_GroupsInOrder ==
  mPhase = "done" =>
    /\ \A m \in 1..Len(mOut) : Len(mOut[m]) >= 2 /\ StartsOf(mOut[m]) # {}
    /\ \A m, n \in 1..Len(mOut) :
         m < n => \A k \in StartsOf(mOut[m]) : \A l \in StartsOf(mOut[n]) : k < l

\* Two groups are returned and a cluster between or after them was dropped.
C15_Witness ==
  /\ mPhase = "done"
  /\ Len(mOut) >= 2
  /\ Len(mOut) < Len(mInput)

\* C16: normalizeChunk is idempotent, on every source text and on every
\* window the chunker returns.
C16_NormalizeIdempotent ==
  /\ normalizeChunk(normalizeChunk(cText)) = normalizeChunk(cText)
  /\ \A k \in 1..Len(cChunks) : normalizeChunk(cChunks[k]) = cChunks[k]

\* A window was built from a text in which normalization collapsed a run of
\* whitespace, removed whitespace between ">" and "<" and trimmed.
C16_Witness ==
  /\ cPhase = "chunked"
  /\ Len(cChunks) >= 1
  /\ Len(CollapseWs(cText)) < Len(cText)
  /\ StripBetweenTags("", CollapseWs(cText)) # CollapseWs(cText)
  /\ normalizeChunk(cText) # StripBetweenTags("", CollapseWs(cText))

\* C17: mergePairs returns the clusters of section 4.4 with the two endpoint
\* tests applied independently of each other, also when both ids of cluster j
\* are among the ids of cluster i.
C17_IndependentTests == mPhase = "done" => mOut = GroupMerge(mInput, TRUE)

\* C17, amended: mergePairs returns the clusters of section 4.4 with the
\* second test made on cluster j as the first test left it: when j's first id
\* is among i's ids only j's last chunk is moved, and j's first chunk is moved
\* only when j's first id is not among i's ids and j's second id is.
C17_SecondTestOnRemainder == mPhase = "done" => mOut = GroupMerge(mInput, FALSE)

\* mergePairs has returned for a list in which both ids of a later pair were
\* among the ids of an earlier cluster.
C17_Witness ==
  /\ mPhase = "done"
  /\ GroupMerge(mInput, TRUE) # GroupMerge(mInput, FALSE)

\* C18: mergePairs is one left-to-right pass: a cluster that has given a
\* chunk away is left as it is from then on, (1,2),(3,4),(2,3) gives the
\* groups [1,2,3] and [3,4], and (1,2),(2,3),(3,4) the group [1,2,3,4].
C18_SinglePass ==
  [][/\ \A k \in 1..Len(clonePairs) :
          Len(clonePairs[k]) <= 1 => clonePairs'[k] = clonePairs[k]
     /\ mPhase' = "done" /\ mInput' = <<<<1, 2>>, <<3, 4>>, <<2, 3>>>>
          => mOut' = <<<<1, 2, 3>>, <<3, 4>>>>
     /\ mPhase' = "done" /\ mInput' = <<<<1, 2>>, <<2, 3>>, <<3, 4>>>>
          => mOut' = <<<<1, 2, 3, 4>>>>]_vars

\* mergePairs has returned for (1,2),(3,4),(2,3): the third cluster gave 3 to
\* the first and was not merged with the second.
C18_Witness ==
  /\ mPhase = "done"
  /\ mInput = <<<<1, 2>>, <<3, 4>>, <<2, 3>>>>
  /\ clonePairs[3] = <<2>>

\* C19: every group mergePairs returns holds pairwise distinct chunk ids.
C19_DistinctIds ==
  mPhase = "done" => \A m \in 1..Len(mOut) : Cardinality(Ids(mOut[m])) = Len(mOut[m])

\* C20: mergePairs only moves chunks: a cluster shrinks only from its 2
\* chunks to 1, once, and is never emptied; the clusters together hold
\* 2 x the number of input pairs; the caller's list is left as it was.
C20_MovesOnly ==
  [][/\ \A k \in 1..Len(clonePairs) :
          /\ Len(clonePairs'[k]) < Len(clonePairs[k])
               => /\ clonePairs[k] = mInput[k]
                  /\ Len(clonePairs'[k]) = 1
          /\ Len(clonePairs[k]) = 1 => clonePairs'[k] = clonePairs[k]
     /\ mPhase' \in {"outer", "inner", "filter", "done"}
          => /\ Len(clonePairs') = Len(mInput')
             /\ \A k \in 1..Len(clonePairs') : Len(clonePairs'[k]) >= 1
             /\ TotalChunks(clonePairs') = 2 * Len(mInput')
     /\ mPairs' = mInput']_vars

\* mergePairs has returned after both kinds of move: a cluster gave its last
\* chunk and another its first.
C20_Witness ==
  /\ mPhase = "done"
  /\ \E k \in 1..Len(clonePairs) : clonePairs[k] = <<mInput[k][1]>>
  /\ \E k \in 1..Len(clonePairs) : clonePairs[k] = <<mInput[k][2]>>

\* ---------------------------------------------------------------- C21, C22
\* The content a file had on disk when its modification time was t: the
\* initial content at time 1, one save for each later time.
RECURSIVE ContentAt(_, _)
ContentAt(f, t) == IF t <= 1 THEN InitialText(f) ELSE NextText(ContentAt(f, t - 1))

\* The (start_line, chunk) of the windows of a text.
WindowsOfText(text) ==
  LET chunks == splitCodeIntoChunks(text, ChunkSize)
  IN {<<StartLine(k - 1, ChunkSize), chunks[k]>> : k \in 1..Len(chunks)}

\* C21: when the analysis of a file commits, the File record's modified_at is
\* the modification time of the content whose windows are the file's chunk
\* rows, whatever was saved on disk in between.
C21_DateOfIndexedContent ==
  [][\A r \in Runs :
       /\ pc[r] = "tx_end" /\ ~failed[r] /\ pc'[r] # "tx_end"
       /\ fileArg[r].modified_at # Epoch
       => /\ RecordsOf(store', fileArg[r].filepath) = {fileArg[r]}
          /\ {<<c.start_line, c.chunk>> : c \in RowsOf(store', fileArg[r].filepath)}
             = WindowsOfText(ContentAt(fileArg[r].filepath, fileArg[r].modified_at))]_vars

\* The rows and the File records of file g are the same in stores s and t.
SameFor(s, t, g) ==
  /\ RowsOf(s, g) = RowsOf(t, g)
  /\ RecordsOf(s, g) = RecordsOf(t, g)

\* REFERENCES files(filepath): the file of every chunk row has a File record.
EveryRowHasFile(s) == \A c \in s.chunks : RecordsOf(s, c.file) # {}

\* filepath TEXT PRIMARY KEY: at most one File record per filepath.
OneRecordPerPath(s) == \A x \in s.files : RecordsOf(s, x.filepath) = {x}

\* C22: while the transaction that replaces file f is open, and when it ends
\* by COMMIT or by ROLLBACK, the chunk rows and the File records of every
\* other file are those of the store when the transaction began; and in every
\* state of the store each chunk row's file has a File record and no filepath
\* has two File records.
C22_OtherFilesKept ==
  [][/\ txOwner # NoRun =>
          \A g \in Files \ {fileArg[txOwner].filepath} : SameFor(store', txSnap, g)
     /\ EveryRowHasFile(store')
     /\ OneRecordPerPath(store')]_vars

\* A transaction on one file rolls back after it deleted the file's rows or
\* wrote its File record, while another file has chunk rows in the store.
C22_Witness ==
  \E r \in Runs :
    /\ pc[r] = "tx_end" /\ failed[r] /\ txOwner = r
    /\ store # txSnap
    /\ \E g \in Files \ {fileArg[r].filepath} : RowsOf(txSnap, g) # {}
====
